---- MODULE Spec2Model ----
(***************************************************************************)
(* Regime-aware strategy benchmark: the BacktestEngine event loop          *)
(* (components/backtest_engine.py), the VolatilityHMM regime detector      *)
(* (components/regime_manager.py) and the components they call.            *)
(*                                                                         *)
(* Money and returns are Python floats in the source.  They are modelled   *)
(* by exact decimal numbers [neg, m, e]: the magnitude m is a little-endian*)
(* sequence of base-10^4 digits and the value is m / 10^(4e).  Returns are *)
(* given in hundredths and the cost rate in ten-thousandths, so every      *)
(* product and sum of the source is computed without rounding.             *)
(***************************************************************************)
EXTENDS Integers, Sequences, FiniteSets, TLC

(* ------------------------------ bounds -------------------------------- *)
MaxDates == 3
MaxStrategies == 2
MaxRuns == 2
MaxCalls == 3

(* ------------------------- program constants -------------------------- *)
\* config.INITIAL_CAPITAL = 10000.0
INITIAL_CAPITAL == 10000
\* config.TRANSACTION_COST = 0.0005, in ten-thousandths
TRANSACTION_COST == 5
\* config.HMM_STATES = 2
HMM_STATES == 2

(* ------------------------- decimal arithmetic ------------------------- *)
Base == 100 * 100

RECURSIVE StripHigh(_)
StripHigh(m) ==
    IF m = <<>> THEN <<>>
    ELSE IF m[Len(m)] = 0 THEN StripHigh(SubSeq(m, 1, Len(m) - 1))
    ELSE m

RECURSIVE MulCarry(_, _, _)
MulCarry(m, k, c) ==
    IF m = <<>>
    THEN IF c = 0 THEN <<>> ELSE <<c % Base>> \o MulCarry(<<>>, k, c \div Base)
    ELSE LET p == Head(m) * k + c
         IN  <<p % Base>> \o MulCarry(Tail(m), k, p \div Base)

RECURSIVE AddCarry(_, _, _)
AddCarry(a, b, c) ==
    IF a = <<>> /\ b = <<>>
    THEN IF c = 0 THEN <<>> ELSE <<c>>
    ELSE LET x == IF a = <<>> THEN 0 ELSE Head(a)
             y == IF b = <<>> THEN 0 ELSE Head(b)
             s == x + y + c
         IN  <<s % Base>> \o AddCarry(IF a = <<>> THEN a ELSE Tail(a),
                                      IF b = <<>> THEN b ELSE Tail(b),
                                      s \div Base)

RECURSIVE SubBorrow(_, _, _)
SubBorrow(a, b, c) ==
    IF a = <<>> THEN <<>>
    ELSE LET y == IF b = <<>> THEN 0 ELSE Head(b)
             d == Head(a) - y - c
         IN  <<IF d < 0 THEN d + Base ELSE d>>
             \o SubBorrow(Tail(a), IF b = <<>> THEN b ELSE Tail(b),
                          IF d < 0 THEN 1 ELSE 0)

RECURSIVE MagLess(_, _)
MagLess(a, b) ==
    IF Len(a) # Len(b) THEN Len(a) < Len(b)
    ELSE IF a = <<>> THEN FALSE
    ELSE IF a[Len(a)] # b[Len(b)] THEN a[Len(a)] < b[Len(b)]
    ELSE MagLess(SubSeq(a, 1, Len(a) - 1), SubSeq(b, 1, Len(b) - 1))

RECURSIVE Zeros(_)
Zeros(n) == IF n = 0 THEN <<>> ELSE <<0>> \o Zeros(n - 1)

\* The unique representation of a value: no leading zero digit, no trailing
\* zero digit after the point, zero is positive.
RECURSIVE Canon(_)
Canon(x) ==
    LET m == StripHigh(x.m)
    IN  IF m = <<>> THEN [neg |-> FALSE, m |-> <<>>, e |-> 0]
        ELSE IF x.e > 0 /\ Head(m) = 0
             THEN Canon([neg |-> x.neg, m |-> Tail(m), e |-> x.e - 1])
        ELSE [neg |-> x.neg, m |-> m, e |-> x.e]

\* float(n) of an integer n
Float(n) ==
    Canon([neg |-> n < 0,
           m |-> LET a == IF n < 0 THEN -n ELSE n
                 IN  <<a % Base, (a \div Base) % Base, a \div (Base * Base)>>,
           e |-> 0])

Scaled(x, e) == IF x.m = <<>> THEN <<>> ELSE Zeros(e - x.e) \o x.m

\* x + y
FAdd(x, y) ==
    LET e == IF x.e > y.e THEN x.e ELSE y.e
        a == Scaled(x, e)
        b == Scaled(y, e)
    IN  IF x.neg = y.neg
        THEN Canon([neg |-> x.neg, m |-> AddCarry(a, b, 0), e |-> e])
        ELSE IF MagLess(a, b)
             THEN Canon([neg |-> y.neg, m |-> SubBorrow(b, a, 0), e |-> e])
             ELSE Canon([neg |-> x.neg, m |-> SubBorrow(a, b, 0), e |-> e])

FNeg(x) == IF x.m = <<>> THEN x ELSE [x EXCEPT !.neg = ~x.neg]

\* x - y
FSub(x, y) == FAdd(x, FNeg(y))

\* x < y
FLess(x, y) == FSub(x, y).neg

\* x * (k / 10^4) for an integer k
FMulE4(x, k) ==
    Canon([neg |-> (x.neg # (k < 0)),
           m |-> MulCarry(x.m, IF k < 0 THEN -k ELSE k, 0),
           e |-> x.e + 1])

Abs(n) == IF n < 0 THEN -n ELSE n

(* ------------------------------ the data ------------------------------ *)
\* Log_Ret values in hundredths, the signals of the strategy contract, the
\* Volatility values and the state means the classifier may fit.
Returns == {-2, 1, 3}
Signals == {-1, 0, 1}
Vols == {1, 2}
MeanVals == {1, 2, 3}
None == <<>>

\* One row of the feature table: the index (date) and the columns the core reads.
\* Sig stands for the features a user strategy turns into its signal.
Row(d, r, s, v) == [date |-> d, Log_Ret |-> r, Sig |-> s, Volatility |-> v]

\* The tables of 1..MaxDates rows with strictly increasing dates 1, 2, ...
Tables(R, S, V, C) ==
    UNION {{[hasVol |-> c,
             rows |-> [t \in 1..n |-> Row(t, f[t][1], f[t][2], f[t][3])]]
              : f \in [1..n -> R \X S \X V], c \in C}
           : n \in 1..MaxDates}

Dates(table) == {table.rows[t].date : t \in 1..Len(table.rows)}
VolSeries(table) == [t \in 1..Len(table.rows) |-> table.rows[t].Volatility]

(* --------------------------- the classifier --------------------------- *)
StateIds(n) == 0..(n - 1)

\* What GaussianHMM(random_state=42) answers for a training series of n rows:
\* the fitted means_, the Viterbi path of the training series, and the state
\* it decodes for an observation met in any other series.
Libs(n, nstates, M, E) ==
    [means : [StateIds(nstates) -> M],
     path  : [1..n -> StateIds(nstates)],
     emit  : [Vols -> E]]

\* The library is deterministic: its answer for any table, given its answer l
\* for the series of `trained`.  Another series gets the same fitted means and
\* is decoded observation by observation.
LibFor(l, trained, table) ==
    IF VolSeries(table) = VolSeries(trained) THEN l
    ELSE [means |-> l.means,
          path |-> [t \in 1..Len(table.rows) |-> l.emit[table.rows[t].Volatility]],
          emit |-> l.emit]

\* model.predict(X) of a fitted model
ModelPredict(model, X) ==
    IF X = model.trainX THEN model.path
    ELSE [t \in 1..Len(X) |-> model.emit[X[t]]]

\* np.argsort(means): the state ids in ascending order of mean (insertion sort
\* for arrays this small, so ties keep the id order).
RECURSIVE ArgSortFrom(_, _)
ArgSortFrom(means, left) ==
    IF left = {} THEN <<>>
    ELSE LET s == CHOOSE a \in left :
                     \A b \in left \ {a} :
                        means[a] < means[b] \/ (means[a] = means[b] /\ a < b)
         IN  <<s>> \o ArgSortFrom(means, left \ {s})

ArgSort(means) == ArgSortFrom(means, DOMAIN means)

\* (mutant) the map is taken from rank to state id
StateMapByRank(sorted_indices) ==
    [new_rank \in {r - 1 : r \in 1..Len(sorted_indices)} |->
        sorted_indices[new_rank + 1]]

\* {original: new_rank for new_rank, original in enumerate(sorted_indices)}
StateMapOf(sorted_indices) ==
    [original \in {sorted_indices[r] : r \in 1..Len(sorted_indices)} |->
        (CHOOSE r \in 1..Len(sorted_indices) : sorted_indices[r] = original) - 1]

EmptyMap == [s \in {} |-> 0]

\* VolatilityHMM.__init__
NewDetector(n) ==
    [n_states |-> n, state_map |-> EmptyMap, is_fitted |-> FALSE,
     regime_history |-> None, model |-> None]

\* The detector after the body of fit has run on a table that has the
\* Volatility column, given the library's answer l for the table.
Fitted(d, table, l) ==
    LET vol_series == VolSeries(table)
        fitted == [means |-> l.means, path |-> l.path, emit |-> l.emit,
                   trainX |-> vol_series]
        sorted_indices == ArgSort(fitted.means)
        state_map == StateMapOf(sorted_indices)
        internal_states == ModelPredict(fitted, vol_series)
        sorted_states == [t \in 1..Len(internal_states) |->
                             state_map[internal_states[t]]]
    IN  [d EXCEPT !.model = <<fitted>>,
                  !.state_map = state_map,
                  !.regime_history =
                      <<[index |-> [t \in 1..Len(table.rows) |->
                                       table.rows[t].date],
                         values |-> sorted_states]>>,
                  !.is_fitted = TRUE]

\* (mutant) fit drops what an earlier fit left before it looks at the table
FitClearing(d, table, l) ==
    IF ~table.hasVol THEN [err |-> "KeyError", det |-> NewDetector(d.n_states)]
    ELSE [err |-> "", det |-> Fitted(d, table, l)]

\* VolatilityHMM.fit, given the library's answer l for this training table.
\* The result is [err, det]: err is "" when the call returns.
Fit(d, table, l) ==
    IF ~table.hasVol THEN [err |-> "KeyError", det |-> d]
    ELSE [err |-> "", det |-> Fitted(d, table, l)]

\* (mutant) the label of the latest cached date is returned for any date
LookupLatest(history, date) == history.values[Len(history.values)]

\* regime_history.loc[date]
Lookup(history, date) ==
    history.values[CHOOSE t \in 1..Len(history.index) : history.index[t] = date]

\* VolatilityHMM.detect_regime: [err, label]; the detector is not assigned to.
DetectRegime(d, row) ==
    IF ~d.is_fitted THEN [err |-> "ValueError", label |-> None]
    ELSE LET history == d.regime_history[1]
         IN  IF \E t \in 1..Len(history.index) : history.index[t] = row.date
             THEN [err |-> "", label |-> Lookup(history, row.date)]
             ELSE LET internal == ModelPredict(d.model[1], <<row.Volatility>>)[1]
                  IN  [err |-> "", label |-> d.state_map[internal]]

\* (mutant) predict_batch fits on the table it is given at every call
PredictBatchRefit(d, table, l) ==
    LET f == Fit(d, table, l)
    IN  IF f.err # "" THEN [err |-> f.err, det |-> f.det, labels |-> None]
        ELSE [err |-> "", det |-> f.det,
              labels |-> f.det.regime_history[1].values]

\* (mutant) predict_batch refuses an unfitted detector
PredictBatchFitted(d, table, l) ==
    IF ~d.is_fitted THEN [err |-> "ValueError", det |-> d, labels |-> None]
    ELSE [err |-> "", det |-> d,
          labels |-> [t \in 1..Len(table.rows) |->
                         DetectRegime(d, table.rows[t]).label]]

\* VolatilityHMM.predict_batch, given the library's answer l should the call
\* have to fit: [err, det, labels]
PredictBatch(d, table, l) ==
    LET f == IF d.regime_history = None THEN Fit(d, table, l)
             ELSE [err |-> "", det |-> d]
        d1 == f.det
    IN  IF f.err # "" THEN [err |-> f.err, det |-> d1, labels |-> None]
        ELSE IF Len(table.rows) = Len(d1.regime_history[1].values)
        THEN [err |-> "", det |-> d1, labels |-> d1.regime_history[1].values]
        ELSE IF ~table.hasVol
        THEN [err |-> "KeyError", det |-> d1, labels |-> None]
        ELSE LET internal_states == ModelPredict(d1.model[1], VolSeries(table))
             IN  [err |-> "", det |-> d1,
                  labels |-> [t \in 1..Len(internal_states) |->
                                 d1.state_map[internal_states[t]]]]

(* --------------------------- the strategies --------------------------- *)
\* The objects main() composes: a user strategy and the same strategy gated
\* by the detector.
Pool == {"baseline_strat", "experimental_strat"}

\* BaseStrategy.get_name: the class name; the wrapper composes its base's.
GetName(s) ==
    IF s = "baseline_strat" THEN "UserStrategy" ELSE "RegimeAware(UserStrategy)"

\* A user strategy's generate_signal: a function of the row alone.
BaseSignal(row) == row.Sig

\* RegimeAwareWrapper.generate_signal: [err, signal]
WrapperSignal(d, row) ==
    LET r == DetectRegime(d, row)
        raw == BaseSignal(row)
    IN  IF r.err # "" THEN [err |-> r.err, signal |-> 0]
        ELSE [err |-> "", signal |-> IF r.label = 0 THEN raw ELSE 0]

\* strat.generate_signal(row)
GenerateSignal(s, d, row) ==
    IF s = "baseline_strat" THEN [err |-> "", signal |-> BaseSignal(row)]
    ELSE WrapperSignal(d, row)

\* RegimeAwareWrapper.train: the detector is fitted, then the base is trained.
WrapperTrain(d, history, l) == Fit(d, history, l)

\* The strategy a RegimeAwareWrapper was given: main() wraps baseline_strat.
Wrapped(s) == "baseline_strat"

\* The train() invocations that strat.train(history) makes, its own first: a
\* wrapper whose detector was fitted goes on to train the strategy it wraps.
TrainCalls(s, e) ==
    IF s = "baseline_strat" \/ e # "" THEN <<s>> ELSE <<s, Wrapped(s)>>

\* strat.train(history): [err, det].  The user strategy learns nothing.
Train(s, d, history, l) ==
    IF s = "baseline_strat" THEN [err |-> "", det |-> d]
    ELSE WrapperTrain(d, history, l)

(* ------------------------ cost model and ledger ----------------------- *)
\* TransactionCosts.compute_trade_cost(prev, new, notional) at the given rate
ComputeTradeCost(rate, prev_signal, signal, notional) ==
    FMulE4(notional, rate * Abs(signal - prev_signal))

\* Portfolio(initial_equity, prev_signal)
NewPortfolio(initial_equity, prev_signal) ==
    [prev_signal |-> prev_signal, cash_equity |-> Float(initial_equity),
     points |-> <<>>, trades |-> <<>>]

\* Portfolio.step(date, signal, day_return, trade_cost): [err, port, pnl, equity]
Step(port, date, signal, day_return, trade_cost) ==
    IF port.points # <<>> /\ date <= port.points[Len(port.points)].date
    THEN [err |-> "StateError", port |-> port, pnl |-> None, equity |-> None]
    ELSE LET gross_pnl == FMulE4(port.cash_equity,
                                 port.prev_signal * day_return * 100)
             net_pnl == FSub(gross_pnl, trade_cost)
             equity == FAdd(port.cash_equity, net_pnl)
             points == Append(port.points,
                              [date |-> date, pnl |-> net_pnl, equity |-> equity])
             trades == IF signal # port.prev_signal
                       THEN Append(port.trades,
                                   [date |-> date, prev |-> port.prev_signal,
                                    new |-> signal, cost |-> trade_cost])
                       ELSE port.trades
         IN  [err |-> "",
              port |-> [prev_signal |-> signal, cash_equity |-> equity,
                        points |-> points, trades |-> trades],
              pnl |-> net_pnl, equity |-> equity]

(* ------------------------------ the state ----------------------------- *)
VARIABLES
    data,            \* BacktestEngine.data: the feature table
    lib,             \* what the HMM library answers when fitted on data
    strategies,      \* BacktestEngine.strategies
    portfolios,      \* BacktestEngine.portfolios: name -> Portfolio
    pc,              \* where run() stands
    i, j,            \* run()'s loop indices: the row and the strategy
    runs,            \* the number of run() calls so far
    signal_history,  \* run()'s signal_history: name -> list
    results,         \* run()'s results: name -> the two columns added
    files,           \* the exports written under OUTPUT_DIR: name -> contents
    train_calls,     \* the train() invocations of the last run(), in order
    det,             \* the VolatilityHMM object
    err,             \* the exception the last call raised, "" if none
    call,            \* the last call made on the detector directly
    calls            \* the number of such calls so far

vars == <<data, lib, strategies, portfolios, pc, i, j, runs, signal_history,
          results, files, train_calls, det, err, call, calls>>

engineVars == <<strategies, portfolios, pc, i, j, runs, signal_history,
                results, files, train_calls>>

NoCall == [op |-> "", arg |-> None, err |-> "", out |-> None,
           fitted_before |-> FALSE, repeated |-> FALSE]

\* The state after BacktestEngine(data) and VolatilityHMM(n_states) are built.
Constructed ==
    /\ strategies = <<>>
    /\ portfolios = EmptyMap
    /\ pc = "Unstarted"
    /\ i = 0
    /\ j = 0
    /\ runs = 0
    /\ signal_history = EmptyMap
    /\ results = EmptyMap
    /\ files = EmptyMap
    /\ train_calls = <<>>
    /\ err = ""
    /\ call = NoCall
    /\ calls = 0

\* No call of the single-threaded caller is in progress.
Idle == pc \in {"Unstarted", "Completed", "Failed"}

\* The keys of a dict filled in the order of `strategies`, in insertion order.
RECURSIVE NamesInOrder(_)
NamesInOrder(strats) ==
    IF strats = <<>> THEN <<>>
    ELSE LET front == NamesInOrder(SubSeq(strats, 1, Len(strats) - 1))
             name == GetName(strats[Len(strats)])
         IN  IF \E t \in 1..Len(front) : front[t] = name THEN front
             ELSE Append(front, name)

Put(dict, key, value) == [n \in DOMAIN dict \cup {key} |->
                             IF n = key THEN value ELSE dict[n]]

(* ------------------------------ the engine ---------------------------- *)
\* (mutant) the ledger is opened with the unit equity run_backtest uses
PortfolioArgsUnit == <<1, 0>>

\* (mutant) the ledger is opened as if a long position were already held
PortfolioArgsLong == <<INITIAL_CAPITAL, 1>>

\* The arguments add_strategy gives Portfolio: initial_equity, prev_signal
PortfolioArgs == <<INITIAL_CAPITAL, 0>>

\* BacktestEngine.add_strategy
AddStrategy(s) ==
    /\ Idle
    /\ Len(strategies) < MaxStrategies
    /\ strategies' = Append(strategies, s)
    /\ portfolios' = Put(portfolios, GetName(s),
                         NewPortfolio(PortfolioArgs[1], PortfolioArgs[2]))
    /\ UNCHANGED <<data, lib, train_calls, pc, i, j, runs, signal_history, results, files,
                   det, err, call, calls>>

\* run() is entered.
RunStart ==
    /\ Idle
    /\ runs < MaxRuns
    /\ runs' = runs + 1
    /\ pc' = "Training"
    /\ j' = 1
    /\ err' = ""
    /\ train_calls' = <<>>
    /\ UNCHANGED <<data, lib, strategies, portfolios, i, signal_history,
                   results, files, det, call, calls>>

\* "for strat in self.strategies: strat.train(table)": the training loop over
\* `strats`, left at the first train that raises: [err, det]
RECURSIVE TrainAll(_, _, _, _)
TrainAll(strats, d, table, l) ==
    IF strats = <<>> THEN [err |-> "", det |-> d]
    ELSE LET r == Train(Head(strats), d, table, l)
         IN  IF r.err # "" THEN r ELSE TrainAll(Tail(strats), r.det, table, l)

\* (mutant) an exception of strat.train is swallowed and the loop goes on
TrainStepLenient ==
    /\ pc = "Training"
    /\ j <= Len(strategies)
    /\ det' = Train(strategies[j], det, data, LibFor(lib, data, data)).det
    /\ train_calls' = train_calls \o TrainCalls(strategies[j], "")
    /\ j' = j + 1
    /\ UNCHANGED <<data, lib, strategies, portfolios, pc, i, runs,
                   signal_history, results, files, err, call, calls>>

\* One pass of "for strat in self.strategies: strat.train(self.data)"
TrainStep ==
    /\ pc = "Training"
    /\ j <= Len(strategies)
    /\ LET r == Train(strategies[j], det, data, LibFor(lib, data, data))
       IN  /\ train_calls' = train_calls \o TrainCalls(strategies[j], r.err)
           /\ IF r.err # ""
              THEN /\ pc' = "Failed"
                   /\ err' = r.err
                   /\ UNCHANGED <<j, det>>
              ELSE /\ det' = r.det
                   /\ j' = j + 1
                   /\ UNCHANGED <<pc, err>>
    /\ UNCHANGED <<data, lib, strategies, portfolios, i, runs, signal_history,
                   results, files, call, calls>>

\* (mutant) the simulation starts as soon as the first strategy is trained
BeginSimEarly ==
    /\ pc = "Training"
    /\ j > 1
    /\ signal_history' = [n \in {GetName(strategies[t]) : t \in 1..Len(strategies)}
                             |-> <<>>]
    /\ pc' = "Simulating"
    /\ i' = 1
    /\ j' = 1
    /\ UNCHANGED <<data, lib, train_calls, strategies, portfolios, runs, results, files, det,
                   err, call, calls>>

\* The training loop is over: signal_history is created.
BeginSim ==
    /\ pc = "Training"
    /\ j > Len(strategies)
    /\ signal_history' = [n \in {GetName(strategies[t]) : t \in 1..Len(strategies)}
                             |-> <<>>]
    /\ pc' = "Simulating"
    /\ i' = 1
    /\ j' = 1
    /\ UNCHANGED <<data, lib, train_calls, strategies, portfolios, runs, results, files, det,
                   err, call, calls>>

\* (mutant) the return is read one row ahead of the date it is booked at
DailyReturnAhead(t) ==
    data.rows[IF t < Len(data.rows) THEN t + 1 ELSE t].Log_Ret

\* daily_return = row['Log_Ret'] of row t
DailyReturn(t) == data.rows[t].Log_Ret

\* (mutant) the cost is charged on the initial capital, not the current equity
TradeCostArgsInitial(portfolio, signal) ==
    <<portfolio.prev_signal, signal, Float(INITIAL_CAPITAL)>>

\* (mutant) the cost is charged on the target exposure, not on its change
TradeCostArgsFlat(portfolio, signal) ==
    <<0, signal, portfolio.cash_equity>>

\* The arguments of self.tc.compute_trade_cost
TradeCostArgs(portfolio, signal) ==
    <<portfolio.prev_signal, signal, portfolio.cash_equity>>

\* (mutant) the dates of a later run are passed on from where the last ended
StepDateOfRun(t) == data.rows[t].date + Len(data.rows) * (runs - 1)

\* date = self.data.index[i], the date portfolio.step is given for row t
StepDate(t) == data.rows[t].date

\* (mutant) every strategy's work is booked on the ledger registered last
LedgerKeyLast(strat) == GetName(strategies[Len(strategies)])

\* name = strat.get_name(); portfolio = self.portfolios[name]
LedgerKey(strat) == GetName(strat)

\* (mutant) the ledger is stepped with the exposure it already holds
StepSignalHeld(portfolio, signal) == portfolio.prev_signal

\* The target signal of portfolio.step(date, signal, daily_return, trade_cost)
StepSignal(portfolio, signal) == signal

\* The body of the inner loop for one strategy on row t, given the detector,
\* the ledgers and the signal lists it finds: [err, ports, hist].  Nothing is
\* assigned when generate_signal or step raises.
StratStep(strat, d, ports, hist, t) ==
    LET row == data.rows[t]
        date == StepDate(t)
        daily_return == DailyReturn(t)
        name == GetName(strat)
        portfolio == ports[LedgerKey(strat)]
        g == GenerateSignal(strat, d, row)
        signal == g.signal
        a == TradeCostArgs(portfolio, signal)
        trade_cost == ComputeTradeCost(TRANSACTION_COST, a[1], a[2], a[3])
        st == Step(portfolio, date, StepSignal(portfolio, signal), daily_return,
                   trade_cost)
    IN  IF g.err # "" THEN [err |-> g.err, ports |-> ports, hist |-> hist]
        ELSE IF st.err # "" THEN [err |-> st.err, ports |-> ports, hist |-> hist]
        ELSE [err |-> "",
              ports |-> [ports EXCEPT ![LedgerKey(strat)] = st.port],
              hist |-> [hist EXCEPT ![name] = Append(@, signal)]]

\* "for strat in ...": the inner loop over the strategies of `order` on row t,
\* left at the first one that raises: [err, ports, hist]
RECURSIVE ProcessDate(_, _, _, _, _)
ProcessDate(order, d, ports, hist, t) ==
    IF order = <<>> THEN [err |-> "", ports |-> ports, hist |-> hist]
    ELSE LET r == StratStep(Head(order), d, ports, hist, t)
         IN  IF r.err # "" THEN r
             ELSE ProcessDate(Tail(order), d, r.ports, r.hist, t)

\* "for i in range(len(self.data))": the simulation loop from row t on, left
\* at the first step that raises: [err, ports, hist]
RECURSIVE SimulateFrom(_, _, _, _, _)
SimulateFrom(strats, d, ports, hist, t) ==
    IF t > Len(data.rows) THEN [err |-> "", ports |-> ports, hist |-> hist]
    ELSE LET r == ProcessDate(strats, d, ports, hist, t)
         IN  IF r.err # "" THEN r
             ELSE SimulateFrom(strats, d, r.ports, r.hist, t + 1)

\* (mutant) the loops are nested the other way: a strategy is taken through
\* every date before the next strategy starts
NextTurnByStrategy(t, k) ==
    IF t = Len(data.rows) THEN <<1, k + 1>> ELSE <<t + 1, k>>

\* The nesting of the two loops: the row and the strategy that follow strategy
\* k on row t, the next row starting when the last strategy has been stepped.
NextTurn(t, k) ==
    IF k = Len(strategies) THEN <<t + 1, 1>> ELSE <<t, k + 1>>

\* One pass of the inner loop: strategy j on row i.
SimStep ==
    /\ pc = "Simulating"
    /\ i <= Len(data.rows)
    /\ j <= Len(strategies)
    /\ LET r == StratStep(strategies[j], det, portfolios, signal_history, i)
       IN  IF r.err # ""
           THEN /\ pc' = "Failed"
                /\ err' = r.err
                /\ UNCHANGED <<portfolios, signal_history, i, j>>
           ELSE /\ portfolios' = r.ports
                /\ signal_history' = r.hist
                /\ i' = NextTurn(i, j)[1]
                /\ j' = NextTurn(i, j)[2]
                /\ UNCHANGED <<pc, err>>
    /\ UNCHANGED <<data, lib, train_calls, strategies, runs, results, files, det, call, calls>>

\* The simulation loop is over: results = self.data.copy()
EndSim ==
    /\ pc = "Simulating"
    /\ i > Len(data.rows) \/ strategies = <<>>
    /\ results' = EmptyMap
    /\ pc' = "Compiling"
    /\ j' = 1
    /\ UNCHANGED <<data, lib, train_calls, strategies, portfolios, i, runs, signal_history,
                   files, det, err, call, calls>>

NaN == [neg |-> TRUE, m |-> <<>>, e |-> 0]

\* results[name_Equity] = port.to_equity_df()['Equity'], aligned on the index
EquityColumn(port) ==
    [t \in 1..Len(data.rows) |->
        IF \E q \in 1..Len(port.points) : port.points[q].date = data.rows[t].date
        THEN port.points[CHOOSE q \in 1..Len(port.points) :
                            port.points[q].date = data.rows[t].date].equity
        ELSE NaN]

\* One pass of "for name, port in self.portfolios.items()"
CompileStep ==
    /\ pc = "Compiling"
    /\ j <= Len(NamesInOrder(strategies))
    /\ LET name == NamesInOrder(strategies)[j]
           port == portfolios[name]
       IN  IF Len(signal_history[name]) # Len(data.rows)
           THEN /\ pc' = "Failed"
                /\ err' = "ValueError"
                /\ UNCHANGED <<results, files, j>>
           ELSE /\ results' = Put(results, name,
                                  [Equity |-> EquityColumn(port),
                                   Signal |-> signal_history[name]])
                /\ files' = Put(files, name,
                                [equity |-> port.points, trades |-> port.trades])
                /\ j' = j + 1
                /\ UNCHANGED <<pc, err>>
    /\ UNCHANGED <<data, lib, train_calls, strategies, portfolios, i, runs, signal_history,
                   det, call, calls>>

\* run() returns results.
Finish ==
    /\ pc = "Compiling"
    /\ j > Len(NamesInOrder(strategies))
    /\ pc' = "Completed"
    /\ UNCHANGED <<data, lib, train_calls, strategies, portfolios, i, j, runs,
                   signal_history, results, files, det, err, call, calls>>

\* The engine on tables of every return and signal; the classifier puts every
\* row in one state.
Init ==
    /\ data \in Tables(Returns, Signals, {1}, {TRUE})
    /\ det = NewDetector(HMM_STATES)
    /\ lib \in {l \in Libs(Len(data.rows), HMM_STATES, MeanVals, {0}) :
                   /\ l.means = [s \in StateIds(HMM_STATES) |-> s + 1]
                   /\ \A t \in DOMAIN l.path : l.path[t] = l.path[1]}
    /\ Constructed

Next ==
    \/ \E s \in Pool : AddStrategy(s)
    \/ RunStart
    \/ TrainStep
    \/ BeginSim
    \/ SimStep
    \/ EndSim
    \/ CompileStep
    \/ Finish

Spec == Init /\ [][Next]_vars

\* Returns, in hundredths, down to the loss of the whole position
DeepReturns == {-100, -99, 3}

\* The engine on tables of unlevered signals and of returns down to -1
LossInit ==
    /\ data \in Tables(DeepReturns, {0, 1}, {1}, {TRUE})
    /\ det = NewDetector(HMM_STATES)
    /\ lib \in {l \in Libs(Len(data.rows), HMM_STATES, MeanVals, {0}) :
                   /\ l.means = [s \in StateIds(HMM_STATES) |-> s + 1]
                   /\ \A t \in DOMAIN l.path : l.path[t] = l.path[1]}
    /\ Constructed

LossSpec == LossInit /\ [][Next]_vars

\* config.HMM_STATES as app.py may override it
MoreStates == HMM_STATES + 1

Injective(f) == \A a, b \in DOMAIN f : f[a] = f[b] => a = b

\* The engine with the gated strategy under every labelling of the dates by a
\* classifier of two or three states with distinct means; the table may lack
\* the Volatility column.
WInit ==
    /\ data \in Tables({1}, {-1, 1}, {1}, BOOLEAN)
    /\ \E n \in {HMM_STATES, MoreStates} :
          /\ det = NewDetector(n)
          /\ lib \in {l \in Libs(Len(data.rows), n, 1..n, {0}) :
                         /\ Injective(l.means)
                         /\ ~data.hasVol =>
                               /\ l.means = [s \in StateIds(n) |-> s + 1]
                               /\ \A t \in DOMAIN l.path : l.path[t] = 0}
    /\ Constructed

WSpec == WInit /\ [][Next]_vars

(* ------------------------ calls on the detector ----------------------- *)
Slice(table, a, b) == [hasVol |-> table.hasVol, rows |-> SubSeq(table.rows, a, b)]

\* The same rows under later dates: none of them is a date of `table`.
Later(table) ==
    [hasVol |-> table.hasVol,
     rows |-> [t \in 1..Len(table.rows) |->
                  [table.rows[t] EXCEPT !.date = @ + Len(table.rows)]]]

\* The same dates with other Volatility values
Revalued(table) ==
    [hasVol |-> table.hasVol,
     rows |-> [t \in 1..Len(table.rows) |->
                  [table.rows[t] EXCEPT !.Volatility = 3 - @]]]

\* The same rows without the Volatility column
Bare(table) == [table EXCEPT !.hasVol = FALSE]

\* The tables and rows a caller passes: the table itself, its sub-ranges, a
\* revalued copy, an out-of-sample table and a table without the column.
Inputs ==
    {Slice(data, a, b) : a \in 1..Len(data.rows), b \in 1..Len(data.rows)}
        \cup {Later(data), Revalued(data), Bare(data)}
InputTables == {t \in Inputs : t.rows # <<>>}
InputRows == UNION {{t.rows[k] : k \in 1..Len(t.rows)} : t \in InputTables}

\* detector.fit(table)
CallFit(table) ==
    /\ Idle
    /\ calls < MaxCalls
    /\ LET r == Fit(det, table, LibFor(lib, data, table))
       IN  /\ det' = r.det
           /\ call' = [op |-> "fit", arg |-> table, err |-> r.err, out |-> None,
                       fitted_before |-> det.is_fitted, repeated |-> FALSE]
    /\ calls' = calls + 1
    /\ UNCHANGED <<data, lib, err>>
    /\ UNCHANGED engineVars

\* detector.detect_regime(row)
CallDetectRegime(row) ==
    /\ Idle
    /\ calls < MaxCalls
    /\ LET r == DetectRegime(det, row)
       IN  call' = [op |-> "detect_regime", arg |-> row, err |-> r.err,
                    out |-> r.label, fitted_before |-> det.is_fitted,
                    repeated |-> FALSE]
    /\ calls' = calls + 1
    /\ UNCHANGED <<data, lib, det, err>>
    /\ UNCHANGED engineVars

\* detector.predict_batch(table)
CallPredictBatch(table) ==
    /\ Idle
    /\ calls < MaxCalls
    /\ LET r == PredictBatch(det, table, LibFor(lib, data, table))
       IN  /\ det' = r.det
           /\ call' = [op |-> "predict_batch", arg |-> table, err |-> r.err,
                       out |-> r.labels, fitted_before |-> det.is_fitted,
                       repeated |-> call.op = "predict_batch" /\ call.arg = table]
    /\ calls' = calls + 1
    /\ UNCHANGED <<data, lib, err>>
    /\ UNCHANGED engineVars

DetNext ==
    \/ \E table \in InputTables : CallFit(table)
    \/ \E row \in InputRows : CallDetectRegime(row)
    \/ \E table \in InputTables : CallPredictBatch(table)

\* The two-state detector called directly; the library's answer for the table
\* is any means, any path and any decoding of a single observation.
DetInit ==
    /\ data \in Tables({1}, {0}, {1}, BOOLEAN)
    /\ det = NewDetector(HMM_STATES)
    /\ lib \in {l \in Libs(Len(data.rows), HMM_STATES, 1..HMM_STATES,
                          StateIds(HMM_STATES)) :
                   ~data.hasVol =>
                       /\ l.means = [s \in StateIds(HMM_STATES) |-> s + 1]
                       /\ \A t \in DOMAIN l.path : l.path[t] = 0
                       /\ \A v \in Vols : l.emit[v] = 0}
    /\ Constructed

DetSpec == DetInit /\ [][DetNext]_vars

\* The three-state detector called directly; the library's answer for the
\* table is any path and any order of the means, ties included (means that
\* compare alike are given once: their values are the ranks 1..k).
FitInit ==
    /\ data \in Tables({1}, {0}, {1}, {TRUE})
    /\ det = NewDetector(MoreStates)
    /\ lib \in {l \in Libs(Len(data.rows), MoreStates, MeanVals, {0}) :
                   \E k \in MeanVals :
                      {l.means[s] : s \in StateIds(MoreStates)} = 1..k}
    /\ Constructed

FitSpec == FitInit /\ [][DetNext]_vars

\* The table with one more row at its end: a longer history
Longer(table) ==
    [hasVol |-> table.hasVol,
     rows |-> Append(table.rows,
                     Row(Len(table.rows) + 1, 1, 0, 1))]

\* What the library answers when fitted on the longer history: the means in
\* the opposite order, and a path that visits every state.
AnswerForLonger ==
    [means |-> [s \in StateIds(HMM_STATES) |-> (HMM_STATES + 1) - lib.means[s]],
     path |-> [t \in 1..(Len(data.rows) + 1) |-> t % HMM_STATES],
     emit |-> lib.emit]

\* detector.fit(longer history)
CallFitLonger ==
    /\ Idle
    /\ calls < MaxCalls
    /\ LET r == Fit(det, Longer(data), AnswerForLonger)
       IN  /\ det' = r.det
           /\ call' = [op |-> "fit", arg |-> Longer(data), err |-> r.err,
                       out |-> None, fitted_before |-> det.is_fitted,
                       repeated |-> FALSE]
    /\ calls' = calls + 1
    /\ UNCHANGED <<data, lib, err>>
    /\ UNCHANGED engineVars

RefitNext ==
    \/ DetNext
    \/ CallFitLonger

\* The two-state detector fitted on one history and fitted again on another,
\* for which the library orders its states otherwise.
RefitInit ==
    /\ data \in Tables({1}, {0}, {1}, {TRUE})
    /\ det = NewDetector(HMM_STATES)
    /\ lib \in Libs(Len(data.rows), HMM_STATES, 1..HMM_STATES,
                    StateIds(HMM_STATES))
    /\ Constructed

RefitSpec == RefitInit /\ [][RefitNext]_vars

\* A regime-state count below the least the detector is meant for
FewStates == HMM_STATES - 1

\* VolatilityHMM(n_states=1) called directly: __init__ stores the count and
\* builds the classifier with it.
CfgInit ==
    /\ data \in Tables({1}, {0}, {1}, {TRUE})
    /\ det = NewDetector(FewStates)
    /\ lib \in Libs(Len(data.rows), FewStates, MeanVals, {0})
    /\ Constructed

CfgSpec == CfgInit /\ [][DetNext]_vars

(* ----------------------- reading the ledgers -------------------------- *)
\* Ledger n has been stepped once for every signal run() has recorded for it.
InStep(n) ==
    /\ n \in DOMAIN portfolios
    /\ n \in DOMAIN signal_history
    /\ Len(portfolios[n].points) = Len(signal_history[n])

Steps(n) == 1..Len(portfolios[n].points)

\* The exposure and the equity ledger n held entering its t-th step
EntryExposure(n, t) == IF t = 1 THEN 0 ELSE signal_history[n][t - 1]
EntryEquity(n, t) ==
    IF t = 1 THEN Float(INITIAL_CAPITAL) ELSE portfolios[n].points[t - 1].equity

\* The market return of the date of the t-th step
ReturnAt(n, t) ==
    data.rows[CHOOSE q \in 1..Len(data.rows) :
                 data.rows[q].date = portfolios[n].points[t].date].Log_Ret

\* The cost charged at the t-th step: the pnl booked there is gross less cost.
TradedAt(n, t) ==
    \E q \in 1..Len(portfolios[n].trades) :
        portfolios[n].trades[q].date = portfolios[n].points[t].date
TradeAt(n, t) ==
    portfolios[n].trades[CHOOSE q \in 1..Len(portfolios[n].trades) :
        portfolios[n].trades[q].date = portfolios[n].points[t].date]
ExpectedGross(n, t) ==
    FMulE4(EntryEquity(n, t), EntryExposure(n, t) * ReturnAt(n, t) * 100)
CostAt(n, t) == FSub(ExpectedGross(n, t), portfolios[n].points[t].pnl)
GrossAt(n, t) ==
    FAdd(portfolios[n].points[t].pnl,
         IF TradedAt(n, t) THEN TradeAt(n, t).cost ELSE Float(0))

(* ------------------------------- claims ------------------------------- *)
\* C1: in every run the gross P&L booked for a strategy at a date is the
\* exposure held entering the date (the signal of the previous date, 0 at the
\* first) times the date's return times the equity entering the date; the
\* signal computed at the date does not enter it.
C1_NoLookaheadAccrual ==
    \A n \in DOMAIN portfolios :
        InStep(n) =>
            \A t \in Steps(n) : GrossAt(n, t) = ExpectedGross(n, t)

\* A step that entered long or short, met a non-zero return and switched to a
\* different target.
C1_Witness ==
    \E n \in DOMAIN portfolios :
        /\ InStep(n)
        /\ \E t \in Steps(n) :
              /\ t > 1
              /\ EntryExposure(n, t) # 0
              /\ signal_history[n][t] # EntryExposure(n, t)
              /\ GrossAt(n, t) # Float(0)

\* The cost on record for the t-th step: its Trade's, none without a Trade
RawCost(n, t) == IF TradedAt(n, t) THEN TradeAt(n, t).cost ELSE Float(0)

\* initial_capital * (1 + net_return_1) * ... * (1 + net_return_t), where
\* equity * (1 + net_return) = equity + exposure * return * equity - cost
RECURSIVE Replay(_, _)
Replay(n, t) ==
    IF t = 0 THEN Float(INITIAL_CAPITAL)
    ELSE LET equity == Replay(n, t - 1)
             gross == FMulE4(equity, EntryExposure(n, t) * ReturnAt(n, t) * 100)
         IN  FAdd(equity, FSub(gross, RawCost(n, t)))

\* C2: after steps 1..t the equity of a ledger is the initial capital times
\* the product of (1 + net_return_i), replayed from the raw returns, the
\* recorded costs and the exposures.
C2_PureReplayEquity ==
    \A n \in DOMAIN portfolios :
        InStep(n) =>
            /\ \A t \in Steps(n) : portfolios[n].points[t].equity = Replay(n, t)
            /\ portfolios[n].cash_equity = Replay(n, Len(portfolios[n].points))

\* A ledger after two steps, with a cost paid and a return accrued.
C2_Witness ==
    \E n \in DOMAIN portfolios :
        /\ InStep(n)
        /\ Len(portfolios[n].points) >= 2
        /\ portfolios[n].trades # <<>>
        /\ EntryExposure(n, 2) # 0
        /\ portfolios[n].cash_equity # Float(INITIAL_CAPITAL)

\* c hundredths, and "x is about c hundredths": within one hundredth
Cents(c) == FMulE4(Float(c), 100)
Near(x, c) ==
    /\ ~FLess(Cents(1), FSub(x, Cents(c)))
    /\ ~FLess(Cents(1), FSub(Cents(c), x))

\* The first t rows and signals of ledger n are those of the scenario.
ScenarioUpTo(n, t) ==
    /\ t <= Len(portfolios[n].points)
    /\ \A q \in 1..t :
          /\ data.rows[q].Log_Ret = <<1, -2, 3>>[q]
          /\ signal_history[n][q] = <<1, 1, 0>>[q]

\* C3: returns 0.01, -0.02, 0.03 and signals 1, 1, 0 from capital 10000 at
\* rate 0.0005 give equity 9995 (gross 0, cost 5), then about 9795.1 (gross
\* -199.9, cost 0), then about 10084.05 (gross about 293.85, cost about 4.90,
\* charged on the equity entering the step).
C3_EndToEndScenario ==
    \A n \in DOMAIN portfolios :
        InStep(n) =>
            /\ ScenarioUpTo(n, 1) =>
                  /\ GrossAt(n, 1) = Float(0)
                  /\ RawCost(n, 1) = Float(5)
                  /\ portfolios[n].points[1].equity = Float(9995)
            /\ ScenarioUpTo(n, 2) =>
                  /\ GrossAt(n, 2) = FNeg(Cents(19990))
                  /\ ~TradedAt(n, 2)
                  /\ Near(portfolios[n].points[2].equity, 979510)
            /\ ScenarioUpTo(n, 3) =>
                  /\ Near(GrossAt(n, 3), 29385)
                  /\ Near(RawCost(n, 3), 490)
                  /\ RawCost(n, 3) = FMulE4(portfolios[n].points[2].equity, 5)
                  /\ Near(portfolios[n].points[3].equity, 1008405)

\* The scenario has run to its third step.
C3_Witness ==
    \E n \in DOMAIN portfolios : InStep(n) /\ ScenarioUpTo(n, 3)

\* C4: when the target signal equals the exposure held at every step (from
\* exposure 0), no cost is charged at any step and no Trade is recorded.
C4_ZeroCost ==
    \A n \in DOMAIN portfolios :
        (InStep(n) /\ \A t \in Steps(n) : signal_history[n][t] = EntryExposure(n, t))
            => /\ portfolios[n].trades = <<>>
               /\ \A t \in Steps(n) : CostAt(n, t) = Float(0)

\* A ledger stepped twice with an unchanged exposure.
C4_Witness ==
    \E n \in DOMAIN portfolios :
        /\ InStep(n)
        /\ Len(portfolios[n].points) >= 2
        /\ \A t \in Steps(n) : signal_history[n][t] = EntryExposure(n, t)

\* C5: the cost charged at a step is rate * |new - prev| * notional, with prev
\* the ledger's exposure entering the step, new the step's target signal and
\* notional the ledger's equity before the step; a Trade records the three.
C5_CostOfStep ==
    \A n \in DOMAIN portfolios :
        InStep(n) =>
            \A t \in Steps(n) :
                LET prev == EntryExposure(n, t)
                    new == signal_history[n][t]
                    expected == FMulE4(EntryEquity(n, t),
                                       TRANSACTION_COST * Abs(new - prev))
                IN  /\ CostAt(n, t) = expected
                    /\ TradedAt(n, t) =>
                          /\ TradeAt(n, t).cost = expected
                          /\ TradeAt(n, t).prev = prev
                          /\ TradeAt(n, t).new = new

\* A reversal from short to long, or back, after the equity has moved.
C5_Witness ==
    \E n \in DOMAIN portfolios :
        /\ InStep(n)
        /\ \E t \in Steps(n) :
              /\ t > 1
              /\ Abs(signal_history[n][t] - EntryExposure(n, t)) = 2
              /\ EntryEquity(n, t) # Float(INITIAL_CAPITAL)

(* ----------------------------- the regime veto ------------------------ *)
Baseline == GetName("baseline_strat")
Wrapper == GetName("experimental_strat")

\* The signals the gated strategy has emitted in this run, none before the
\* simulation loop first starts.
Emitted(n) ==
    IF n \in DOMAIN signal_history THEN signal_history[n] ELSE <<>>

\* The detector's regime for bar t: the fit-time label of its date.
RegimeOf(t) == det.regime_history[1].values[t]

\* C6: on every bar the gated strategy emits the base strategy's raw signal
\* when the detector's regime for the bar is 0 and emits 0 under any other
\* regime; so where both strategies run its series equals the base's on the
\* bars of regime 0, the whole series when every regime is 0, and it is all 0
\* when no regime is 0.
C6_RegimeVeto ==
    \A t \in 1..Len(Emitted(Wrapper)) :
        /\ det.is_fitted
        /\ RegimeOf(t) = 0 => Emitted(Wrapper)[t] = BaseSignal(data.rows[t])
        /\ RegimeOf(t) \in 1..(det.n_states - 1) => Emitted(Wrapper)[t] = 0
        /\ RegimeOf(t) \in 0..(det.n_states - 1)
        /\ (RegimeOf(t) = 0 /\ t <= Len(Emitted(Baseline)))
              => Emitted(Wrapper)[t] = Emitted(Baseline)[t]

\* A completed run of both strategies in which a short signal passed under
\* regime 0 and a long signal was vetoed under the highest of three regimes.
C6_Witness ==
    /\ pc = "Completed"
    /\ Len(Emitted(Wrapper)) = MaxDates
    /\ Len(Emitted(Baseline)) = MaxDates
    /\ \E t \in 1..MaxDates :
          RegimeOf(t) = 0 /\ data.rows[t].Sig = -1 /\ Emitted(Wrapper)[t] = -1
    /\ \E t \in 1..MaxDates :
          RegimeOf(t) = 2 /\ data.rows[t].Sig = 1 /\ Emitted(Wrapper)[t] = 0

(* ------------------------- the regime ordering ------------------------ *)
Perms(S) == {f \in [S -> S] : Injective(f)}

\* The library's answer with internal state s renumbered p[s]
Renumber(fitted, p) ==
    [means |-> [s \in DOMAIN p |->
                   fitted.means[CHOOSE a \in DOMAIN p : p[a] = s]],
     path |-> [t \in DOMAIN fitted.path |-> p[fitted.path[t]]],
     emit |-> [v \in DOMAIN fitted.emit |-> p[fitted.emit[v]]]]

\* The table the detector was last fitted on, as its cache and model hold it
FitTable ==
    [hasVol |-> TRUE,
     rows |-> [t \in 1..Len(det.regime_history[1].index) |->
                  Row(det.regime_history[1].index[t], 1, 0,
                      det.model[1].trainX[t])]]

\* The public labels are those a fit under renumbering p gives: the cached
\* sequence and the label of every row a caller may pass.
SameLabelsUnder(p) ==
    LET d2 == Fit(NewDetector(det.n_states), FitTable,
                  Renumber(det.model[1], p)).det
    IN  /\ d2.regime_history[1].values = det.regime_history[1].values
        /\ \A row \in InputRows :
              DetectRegime(d2, row).label = DetectRegime(det, row).label

LabelsReturned ==
    IF call.err # "" THEN {}
    ELSE IF call.op = "detect_regime" THEN {call.out}
    ELSE IF call.op = "predict_batch"
    THEN {call.out[k] : k \in 1..Len(call.out)}
    ELSE {}

DistinctMeans == Injective(det.model[1].means)

\* The map is a bijection onto [0, N), ascending in fitted mean, and every
\* label returned lies in [0, N).
OrderedMap ==
    LET N == det.n_states
        means == det.model[1].means
    IN  /\ DOMAIN det.state_map = StateIds(N)
        /\ {det.state_map[s] : s \in StateIds(N)} = 0..(N - 1)
        /\ \A a, b \in StateIds(N) :
              means[a] < means[b] => det.state_map[a] < det.state_map[b]
        /\ \A s \in StateIds(N) :
              (\A b \in StateIds(N) \ {s} : means[s] < means[b])
                  => det.state_map[s] = 0
        /\ LabelsReturned \subseteq 0..(N - 1)

\* C7 as stated: after every fit the map is a bijection onto [0, N) ascending
\* in fitted mean, every returned label lies in [0, N), and the public labels
\* are the same under any renumbering of the internal state ids.
C7_CanonicalOrdering ==
    det.is_fitted =>
        /\ OrderedMap
        /\ \A p \in Perms(StateIds(det.n_states)) : SameLabelsUnder(p)

\* C7 (amended): after every fit, a re-fit included, the map is a bijection
\* onto [0, N) ascending in fitted mean and every returned label lies in
\* [0, N); the public labels are the same under any renumbering of the
\* internal state ids provided the fitted means are pairwise distinct.
C7_CanonicalOrderingDistinct ==
    det.is_fitted =>
        /\ OrderedMap
        /\ DistinctMeans =>
              \A p \in Perms(StateIds(det.n_states)) : SameLabelsUnder(p)

\* A re-fit has just returned with distinct means whose order is a cycle of
\* the three state ids, on a path that visits every state.
C7_Witness ==
    /\ call.op = "fit" /\ call.err = "" /\ call.fitted_before
    /\ det.n_states = MoreStates
    /\ DistinctMeans
    /\ \E s \in StateIds(det.n_states) : det.state_map[det.state_map[s]] # s
    /\ {det.regime_history[1].values[t] :
            t \in 1..Len(det.regime_history[1].values)} = 0..(det.n_states - 1)

(* ---------------------------- fit before use -------------------------- *)
Detection == {"detect_regime", "predict_batch"}

CachedDates ==
    {det.regime_history[1].index[t] : t \in 1..Len(det.regime_history[1].index)}

\* C9: predict_batch on a fitted detector, given a table all of whose dates
\* are in the fit-time cache, returns for each row the label detect_regime
\* returns for that row.
C9_BatchAgreesPerRow ==
    (/\ call.op = "predict_batch" /\ call.fitted_before /\ call.err = ""
     /\ \A k \in 1..Len(call.arg.rows) : call.arg.rows[k].date \in CachedDates)
        => \A k \in 1..Len(call.arg.rows) :
              call.out[k] = DetectRegime(det, call.arg.rows[k]).label

(* ---------------------------- the ledger clock ------------------------ *)
\* The strategy whose turn it is in the simulation loop, if any
InTurn == pc = "Simulating" /\ i <= Len(data.rows) /\ j <= Len(strategies)

LastDate(port) == port.points[Len(port.points)].date

\* C11: a ledger step for a date that is not strictly greater than the date of
\* the ledger's previous step (the engine gives the ledger the date of the row
\* it is at) fails with StateError and leaves the ledger's equity, exposure,
\* EquityPoints and Trades as they were.
C11_MonotoneClock ==
    [][(/\ InTurn
        /\ GenerateSignal(strategies[j], det, data.rows[i]).err = ""
        /\ portfolios[GetName(strategies[j])].points # <<>>
        /\ data.rows[i].date <= LastDate(portfolios[GetName(strategies[j])]))
           => /\ pc' = "Failed"
              /\ err' = "StateError"
              /\ portfolios' = portfolios]_vars

\* A second run was refused at its first step, a step with an earlier date,
\* by a ledger that holds the points of the first run.
C11_Witness ==
    /\ pc = "Failed" /\ err = "StateError" /\ runs > 1
    /\ i = 1
    /\ Len(data.rows) = MaxDates
    /\ \E n \in DOMAIN portfolios :
          /\ Len(portfolios[n].points) = MaxDates
          /\ LastDate(portfolios[n]) > data.rows[i].date

(* --------------------------- ledger isolation ------------------------- *)
\* C12: the work done for the strategy in turn changes no ledger but the one
\* registered under its own name.
C12_LedgerIsolation ==
    [][InTurn =>
          \A n \in DOMAIN portfolios :
              n # GetName(strategies[j]) =>
                  /\ n \in DOMAIN portfolios'
                  /\ portfolios'[n] = portfolios[n]]_vars

\* Two strategies with ledgers of their own have both traded on every date.
C12_Witness ==
    /\ pc = "Completed"
    /\ Len(strategies) = MaxStrategies
    /\ \A n \in {Baseline, Wrapper} :
          /\ n \in DOMAIN portfolios
          /\ Len(portfolios[n].points) = MaxDates
          /\ portfolios[n].trades # <<>>
    /\ portfolios[Baseline] # portfolios[Wrapper]

(* ------------------- the order of the strategies of a date ------------ *)
Reordered(p) == [k \in 1..Len(strategies) |-> strategies[p[k]]]

\* C13: at the start of any date, processing the registered strategies in any
\* order leaves the same ledgers and signal histories as processing them in
\* registration order.
C13_OrderIndependence ==
    (pc = "Simulating" /\ i <= Len(data.rows) /\ j = 1 /\ strategies # <<>>) =>
        \A p \in Perms(1..Len(strategies)) :
            LET registration == ProcessDate(strategies, det, portfolios,
                                            signal_history, i)
                other == ProcessDate(Reordered(p), det, portfolios,
                                     signal_history, i)
            IN  /\ other.ports = registration.ports
                /\ other.hist = registration.hist

(* ----------------------------- atomic failure ------------------------- *)
Outputs == <<results, files>>

OutputOf(name) ==
    [equity |-> portfolios[name].points, trades |-> portfolios[name].trades]

\* C14: when a strategy's train or a strategy's step raises, the run ends with
\* that error and nothing more is trained or processed; until the simulation
\* loop has ended without an error no output table or export is written, so a
\* failed run has produced none; a run that completes has written the table
\* columns and the exports of every registered strategy.
C14_AtomicFailure ==
    [][/\ (/\ pc = "Training" /\ j <= Len(strategies)
           /\ Train(strategies[j], det, data, LibFor(lib, data, data)).err # "")
              => /\ pc' = "Failed"
                 /\ err' = Train(strategies[j], det, data,
                                 LibFor(lib, data, data)).err
                 /\ UNCHANGED <<det, portfolios, signal_history, Outputs>>
       /\ (/\ InTurn
           /\ StratStep(strategies[j], det, portfolios, signal_history, i).err # "")
              => /\ pc' = "Failed"
                 /\ err' = StratStep(strategies[j], det, portfolios,
                                     signal_history, i).err
                 /\ UNCHANGED <<det, portfolios, signal_history, Outputs>>
       /\ (pc = "Failed" /\ strategies' = strategies)
              => UNCHANGED <<det, portfolios, signal_history, Outputs>>
       /\ (pc \in {"Training", "Simulating"} /\ pc' # "Compiling")
              => UNCHANGED Outputs
       /\ pc' = "Failed" => pc \in {"Training", "Simulating", "Failed"}
       /\ (pc = "Compiling" /\ pc' = "Completed")
              => \A t \in 1..Len(strategies) :
                    LET name == GetName(strategies[t])
                    IN  /\ name \in DOMAIN results' /\ name \in DOMAIN files'
                        /\ files'[name] = OutputOf(name)
                        /\ results'[name].Signal = signal_history[name]
                        /\ results'[name].Equity = EquityColumn(portfolios[name])
      ]_vars

\* A first run has failed at the second strategy's step on the first date:
\* no later date was processed and no output exists.
C14_Witness ==
    /\ pc = "Failed" /\ err = "StateError" /\ runs = 1
    /\ i = 1 /\ j = MaxStrategies
    /\ Len(data.rows) = MaxDates
    /\ results = EmptyMap /\ files = EmptyMap

(* -------------------------------- re-running -------------------------- *)
Names == {GetName(strategies[t]) : t \in 1..Len(strategies)}

\* The strategies registered are those whose output the last completed run
\* wrote, each under a name of its own.
SameAsLastOutput ==
    /\ strategies # <<>>
    /\ Names = DOMAIN files
    /\ Len(strategies) = Cardinality(DOMAIN files)

\* The ledgers and signal lists of a run that starts every ledger from the
\* initial capital with exposure 0
FromInitialCapital ==
    SimulateFrom(strategies, det,
                 [n \in Names |-> NewPortfolio(INITIAL_CAPITAL, 0)],
                 [n \in Names |-> <<>>], 1)

\* C15: a further run() on the same engine, data and strategies completes with
\* the equity curves, signals and trades of a run from the initial capital and
\* exposure 0, every ledger holding exactly one EquityPoint per date.
C15_Rerunnable ==
    (runs > 1 /\ Idle /\ SameAsLastOutput) =>
        /\ pc = "Completed"
        /\ portfolios = FromInitialCapital.ports
        /\ signal_history = FromInitialCapital.hist
        /\ \A n \in Names :
              /\ Len(portfolios[n].points) = Len(data.rows)
              /\ files[n] = OutputOf(n)

(* ------------------------- invalid configuration ---------------------- *)
\* C16 (the detector's part): a detector with a regime-state count below 2 is
\* never constructed, so no call on a detector ever executes with such a count.
C16_ConfigRejected ==
    call.op # "" => det.n_states >= 2

(* ---------------------- fit without the volatility -------------------- *)
\* C17: fit on a table that lacks the Volatility column fails with the
\* missing-column error (a KeyError) and leaves the detector as it was, be it
\* unfitted or fitted with its state map and cached labels.
C17_FitNeedsVolatility ==
    [][(calls' = calls + 1 /\ call'.op = "fit" /\ ~call'.arg.hasVol)
           => /\ call'.err = "KeyError"
              /\ det' = det]_vars

\* A fitted detector whose map is not the identity has been given a table
\* without the column, and still holds its map and its cache.
C17_Witness ==
    /\ call.op = "fit" /\ call.err = "KeyError" /\ call.fitted_before
    /\ ~call.arg.hasVol
    /\ det.is_fitted
    /\ det.state_map[0] # 0
    /\ Len(det.regime_history[1].values) = MaxDates

(* ------------------------ predict_batch, repeated --------------------- *)
\* C19: predict_batch leaves a fitted detector as it was, and a predict_batch
\* call that follows one on the same fitted detector with the same table
\* returns what that one returned.
C19_PredictBatchIdempotent ==
    [][(calls' = calls + 1 /\ call'.op = "predict_batch")
           => /\ det.is_fitted => det' = det
              /\ (/\ call.op = "predict_batch" /\ call.fitted_before
                  /\ call.arg = call'.arg)
                     => call'.out = call.out /\ call'.err = call.err]_vars

\* predict_batch has just been repeated on a proper sub-range of the table a
\* fitted detector caches, where the labels are decoded anew.
C19_Witness ==
    /\ call.op = "predict_batch" /\ call.repeated /\ call.fitted_before
    /\ call.err = ""
    /\ calls = MaxCalls
    /\ Len(call.arg.rows) < Len(det.regime_history[1].values)

(* --------------------- signals and the bars to come ------------------- *)
\* The ledgers and signal lists of a first run after the dates 1..t, under
\* the detector d
RECURSIVE FirstRunUpTo(_, _)
FirstRunUpTo(d, t) ==
    IF t = 0
    THEN [err |-> "", ports |-> [n \in Names |-> NewPortfolio(INITIAL_CAPITAL, 0)],
          hist |-> [n \in Names |-> <<>>]]
    ELSE LET before == FirstRunUpTo(d, t - 1)
         IN  ProcessDate(strategies, d, before.ports, before.hist, t)

\* The rows that may stand for the bar of row u with other feature values
OtherBars(u) ==
    {Row(data.rows[u].date, r, sg, v) :
        r \in {data.rows[u].Log_Ret}, sg \in Signals, v \in Vols}
            \ {data.rows[u]}

\* C18: when the first run of the engine has processed the bars up to t, its
\* signals and ledgers (equity points and trades) are those of a run on any
\* table that differs only in the feature values of bar t+1.
C18_NoLookahead ==
    (pc = "Simulating" /\ runs = 1 /\ j = 1 /\ 1 < i /\ i <= Len(data.rows)) =>
        \A bar \in OtherBars(i) :
            LET table == [data EXCEPT !.rows[i] = bar]
                trained == TrainAll(strategies, NewDetector(det.n_states),
                                    table, LibFor(lib, data, table))
                other == FirstRunUpTo(trained.det, i - 1)
            IN  /\ trained.err = ""
                /\ other.hist = signal_history
                /\ other.ports = portfolios

(* --------------------------- non-negative equity ---------------------- *)
Unlevered == \A t \in 1..Len(data.rows) : data.rows[t].Sig \in {0, 1}

\* The cost rate, in ten-thousandths, lies in [0, 1)
RateInRange == 0 <= TRANSACTION_COST /\ TRANSACTION_COST < 100 * 100

\* Every return, in hundredths, is at least `least` ten-thousandths
ReturnsFrom(least) ==
    \A t \in 1..Len(data.rows) : data.rows[t].Log_Ret * 100 >= least

NonNegativeEquity ==
    \A n \in DOMAIN portfolios :
        /\ ~FLess(portfolios[n].cash_equity, Float(0))
        /\ \A t \in 1..Len(portfolios[n].points) :
              ~FLess(portfolios[n].points[t].equity, Float(0))

\* C20 as stated: with unlevered signals in {0, 1}, returns no lower than -1
\* and a cost rate in [0, 1), the equity of every ledger is >= 0 after every
\* step of every run.
C20_NonNegativeEquity ==
    (Unlevered /\ RateInRange /\ ReturnsFrom(-(100 * 100))) => NonNegativeEquity

\* C20 (amended): with unlevered signals in {0, 1}, a cost rate in [0, 1) and
\* returns no lower than -(1 - rate), the equity of every ledger is >= 0 after
\* every step of every run.
C20_NonNegativeEquityAboveCost ==
    (Unlevered /\ RateInRange /\ ReturnsFrom(TRANSACTION_COST - 100 * 100))
        => NonNegativeEquity

\* A long position has lost 99 hundredths on a date and was closed on that
\* date, the cost paid out of what was left.
C20_Witness ==
    /\ pc = "Completed"
    /\ Unlevered /\ ReturnsFrom(TRANSACTION_COST - 100 * 100)
    /\ Baseline \in DOMAIN portfolios
    /\ \E t \in 2..Len(portfolios[Baseline].points) :
          /\ data.rows[t].Log_Ret = -99
          /\ data.rows[t - 1].Sig = 1 /\ data.rows[t].Sig = 0
          /\ FLess(portfolios[Baseline].points[t].equity, Float(100))

(* ------------------------- the phases of a run ------------------------ *)
\* The moves of run(): it is entered from rest, trains, simulates, compiles
\* the output (the transition to Completed) and returns; an exception leaves
\* it from any of the three loops.
PhaseMoves ==
    {<<"Unstarted", "Training">>, <<"Completed", "Training">>,
     <<"Failed", "Training">>,
     <<"Training", "Simulating">>, <<"Simulating", "Compiling">>,
     <<"Compiling", "Completed">>,
     <<"Training", "Failed">>, <<"Simulating", "Failed">>,
     <<"Compiling", "Failed">>}

\* train has returned for every registered strategy: training them again on
\* the table succeeds and leaves the detector as it is.
Trained ==
    TrainAll(strategies, det, data, LibFor(lib, data, data))
        = [err |-> "", det |-> det]

\* Every registered strategy's step for the last date has been applied.
AllDatesApplied ==
    strategies # <<>> =>
        /\ i > Len(data.rows)
        /\ \A n \in Names :
              /\ Len(signal_history[n]) = Len(data.rows)
              /\ portfolios[n].points # <<>>
              /\ LastDate(portfolios[n]) = data.rows[Len(data.rows)].date

\* C21: a run moves only from rest to Training, from Training to Simulating,
\* from Simulating to the assembly of the output and from there to Completed
\* (or out by an exception); the simulation is entered, and a signal asked or a
\* ledger stepped, only when train has returned for every registered strategy;
\* an output table or export is written only when the steps of the last date
\* have been applied.
C21_PhaseOrder ==
    [][/\ pc' # pc => <<pc, pc'>> \in PhaseMoves
       /\ (pc' = "Simulating" /\ pc # "Simulating")
              => pc = "Training" /\ j > Len(strategies) /\ Trained
       /\ (portfolios' # portfolios /\ strategies' = strategies)
              => pc = "Simulating" /\ Trained
       /\ signal_history' # signal_history
              => Trained /\ "Simulating" \in {pc, pc'}
       /\ Outputs' # Outputs
              => pc \in {"Simulating", "Compiling"} /\ AllDatesApplied]_vars

\* A run of the plain and the gated strategy has completed on a full table:
\* the detector is fitted, every date is in both ledgers and the output holds
\* both strategies.
C21_Witness ==
    /\ pc = "Completed" /\ runs = 1
    /\ Len(strategies) = MaxStrategies /\ Names = {Baseline, Wrapper}
    /\ strategies[1] = "baseline_strat"
    /\ Len(data.rows) = MaxDates
    /\ det.is_fitted
    /\ DOMAIN results = Names /\ DOMAIN files = Names
    /\ \A n \in Names : Len(portfolios[n].points) = MaxDates

(* ----------------------- the barrier between dates -------------------- *)
\* Among the ledgers `ports`, that of strategy k holds a committed step for
\* the date of row t.
CommittedIn(ports, k, t) ==
    \E q \in DOMAIN ports[GetName(strategies[k])].points :
        ports[GetName(strategies[k])].points[q].date = data.rows[t].date

Committed(k, t) == CommittedIn(portfolios, k, t)

\* C22: the simulation takes the rows one by one in strictly ascending date
\* order, going to the next row only from the last strategy of the row, and
\* when a signal is asked or a ledger stepped for a row, every registered
\* strategy's step for the row before is in its ledger, as is the step for
\* this row of every strategy that comes earlier in the registration order.
C22_Barrier ==
    [][/\ InTurn =>
              /\ \A k \in 1..Len(strategies) :
                    /\ i > 1 => Committed(k, i - 1)
                    /\ k < j => Committed(k, i)
              /\ \A t \in 1..Len(data.rows) :
                    t < i <=> data.rows[t].date < data.rows[i].date
       /\ (pc = "Simulating" /\ pc' = "Simulating" /\ i' # i)
              => /\ i' = i + 1
                 /\ j = Len(strategies) /\ j' = 1
                 /\ \A k \in 1..Len(strategies) : CommittedIn(portfolios', k, i)
       /\ (pc = "Simulating" /\ portfolios' # portfolios)
              => LET n == GetName(strategies[j])
                 IN  /\ Len(portfolios'[n].points) = Len(portfolios[n].points) + 1
                     /\ LastDate(portfolios'[n]) = data.rows[i].date]_vars

\* The last of two strategies with ledgers of their own is in turn on the
\* last date of a full table: both hold the date before, the first this date.
C22_Witness ==
    /\ InTurn /\ i = MaxDates /\ j = MaxStrategies
    /\ Names = {Baseline, Wrapper}
    /\ LastDate(portfolios[GetName(strategies[1])]) = data.rows[i].date
    /\ LastDate(portfolios[GetName(strategies[2])]) = data.rows[i - 1].date

(* --------------------------- lockstep accounting ---------------------- *)
\* Every registered strategy has, in the ledgers `ports`, one EquityPoint per
\* date of the table in the table's order, in `hist` one signal per date, and
\* in the table `res` the equity and the signal of every date.
Lockstep(ports, hist, res) ==
    \A k \in 1..Len(strategies) :
        LET n == GetName(strategies[k])
            D == Len(data.rows)
        IN  /\ Len(ports[n].points) = D
            /\ \A t \in 1..D : ports[n].points[t].date = data.rows[t].date
            /\ Len(hist[n]) = D
            /\ n \in DOMAIN res
            /\ Len(res[n].Equity) = D /\ Len(res[n].Signal) = D
            /\ \A t \in 1..D :
                  /\ res[n].Equity[t] = ports[n].points[t].equity
                  /\ res[n].Signal[t] = hist[n][t]

\* The part of C23 about the moment run() completes.
LockstepAtCompletion ==
    [][(pc # "Completed" /\ pc' = "Completed")
           => Lockstep(portfolios', signal_history', results')]_vars

\* C23: when run() completes on a table of D dates, every registered
\* strategy's ledger holds exactly D EquityPoints, one per date in ascending
\* order, its signal history holds D signals and the output table carries one
\* equity value and one signal per date for it; and once the run has completed
\* no ledger changes.
C23_LockstepAccounting ==
    [][/\ (pc # "Completed" /\ pc' = "Completed")
              => Lockstep(portfolios', signal_history', results')
       /\ pc = "Completed"
              => \A n \in DOMAIN portfolios :
                    n \in DOMAIN portfolios' /\ portfolios'[n] = portfolios[n]]_vars

(* ------------------------------ training once ------------------------ *)
\* The strategy objects that take part in the run: the registered ones and
\* the ones they wrap.
Participants ==
    {strategies[k] : k \in 1..Len(strategies)}
        \cup {Wrapped(strategies[k]) :
                 k \in {t \in 1..Len(strategies) : strategies[t] # "baseline_strat"}}

TimesTrained(o) == Cardinality({q \in DOMAIN train_calls : train_calls[q] = o})

\* The first train() invocation on the object o
FirstTrained(o) == CHOOSE q \in DOMAIN train_calls :
                      /\ train_calls[q] = o
                      /\ \A r \in 1..(q - 1) : train_calls[r] # o

\* C24: when the training loop of a run over distinct registered strategy
\* objects has ended, train has been invoked exactly once on every strategy
\* object that takes part in the run (a wrapped strategy included, also when it
\* is registered directly as well), and the registered strategies were trained
\* in the order of their registration.
C24_TrainOnce ==
    (pc = "Training" /\ j > Len(strategies) /\ Injective(strategies)) =>
        /\ \A o \in Participants : TimesTrained(o) = 1
        /\ \A a, b \in 1..Len(strategies) :
              (a < b /\ strategies[a] # strategies[b])
                  => FirstTrained(strategies[a]) < FirstTrained(strategies[b])

\* The same, for engines where no strategy object is registered both directly
\* and inside a wrapper, or twice: there the claim holds.
TrainOnceApart ==
    (pc = "Training" /\ j > Len(strategies) /\ Len(strategies) = 1) =>
        /\ \A o \in Participants : TimesTrained(o) = 1
        /\ train_calls[1] = strategies[1]

(* ------------------------ one ledger per strategy --------------------- *)
\* The registrations whose steps are booked on the ledger n
SteppedBy(n) == {k \in 1..Len(strategies) : LedgerKey(strategies[k]) = n}

\* C25: after any sequence of add_strategy calls there are as many ledgers as
\* registered strategies, and every ledger is the ledger of exactly one
\* registration, the only one whose step it receives on a date.
C25_OneLedgerEach ==
    /\ Cardinality(DOMAIN portfolios) = Len(strategies)
    /\ \A n \in DOMAIN portfolios : Cardinality(SteppedBy(n)) = 1

\* The same for engines whose registered strategies return distinct names:
\* there the claim holds.
OneLedgerEachNamedApart ==
    Cardinality(Names) = Len(strategies) =>
        /\ Cardinality(DOMAIN portfolios) = Len(strategies)
        /\ \A n \in DOMAIN portfolios : Cardinality(SteppedBy(n)) = 1

(* ----------------------------- trade recording ------------------------ *)
IsPrefix(a, b) == Len(a) <= Len(b) /\ SubSeq(b, 1, Len(a)) = a

\* The number of places of the signal list h where the signal differs from
\* the one before it, the one before the first being 0
Changes(h) ==
    Cardinality({t \in DOMAIN h : h[t] # (IF t = 1 THEN 0 ELSE h[t - 1])})

\* C26: a ledger step appends a Trade exactly when the target signal differs
\* from the exposure held, and leaves the target signal as the exposure held;
\* a ledger that holds the steps of the signals listed for it holds as many
\* Trades as the list has changes of signal, counted from 0; and no run
\* modifies or removes an EquityPoint or a Trade recorded earlier.
C26_TradeRecording ==
    [][/\ (pc = "Simulating" /\ portfolios' # portfolios) =>
              LET n == GetName(strategies[j])
                  before == portfolios[n]
                  after == portfolios'[n]
                  signal == signal_history'[n][Len(signal_history'[n])]
              IN  /\ signal_history'[n] = Append(signal_history[n], signal)
                  /\ after.prev_signal = signal
                  /\ Len(after.points) = Len(before.points) + 1
                  /\ IF signal # before.prev_signal
                     THEN /\ Len(after.trades) = Len(before.trades) + 1
                          /\ after.trades[Len(after.trades)].date = data.rows[i].date
                          /\ after.trades[Len(after.trades)].prev = before.prev_signal
                          /\ after.trades[Len(after.trades)].new = signal
                     ELSE after.trades = before.trades
       /\ \A n \in DOMAIN portfolios \cap DOMAIN signal_history :
              Len(signal_history[n]) = Len(portfolios[n].points)
                  => /\ Len(portfolios[n].trades) = Changes(signal_history[n])
                     /\ portfolios[n].prev_signal =
                            (IF signal_history[n] = <<>> THEN 0
                             ELSE signal_history[n][Len(signal_history[n])])
       /\ strategies' = strategies =>
              \A n \in DOMAIN portfolios :
                  /\ IsPrefix(portfolios[n].points, portfolios'[n].points)
                  /\ IsPrefix(portfolios[n].trades, portfolios'[n].trades)]_vars

\* A run has completed on a full table with a ledger that traded on some
\* dates and not on others, the last date being one without a trade.
C26_Witness ==
    /\ pc = "Completed" /\ Len(data.rows) = MaxDates
    /\ Baseline \in DOMAIN portfolios
    /\ Len(portfolios[Baseline].points) = MaxDates
    /\ Len(portfolios[Baseline].trades) = MaxDates - 1
    /\ signal_history[Baseline][MaxDates] = signal_history[Baseline][MaxDates - 1]
    /\ portfolios[Baseline].prev_signal # 0

(* --------------------- the detector between two fits ------------------ *)
\* The library's answer for the table a call was given
AnswerFor(table) ==
    IF table = Longer(data) THEN AnswerForLonger ELSE LibFor(lib, data, table)

\* The detectors a fit leaves
FitResults ==
    {Fitted(NewDetector(HMM_STATES), table, AnswerFor(table)) :
        table \in {t \in InputTables \cup {Longer(data)} : t.hasVol}}

\* The label the cache holds for the date
CachedLabel(d, date) ==
    LET history == d.regime_history[1]
    IN  history.values[CHOOSE t \in DOMAIN history.index :
                          history.index[t] = date]

\* C27: detect_regime and predict_batch leave a fitted detector's state map,
\* cached labels and classifier as they are, and detect_regime for a cached
\* date returns the label the cache holds, which is the one the last fit
\* computed; the map or the cache change only when fit runs (called, or
\* entered by predict_batch on a detector that was never fitted), and then
\* both are the ones of that fit.
C27_ImmutableBetweenFits ==
    [][/\ (calls' = calls + 1 /\ det.is_fitted
           /\ call'.op \in {"detect_regime", "predict_batch"})
              => /\ det' = det
                 /\ det \in FitResults
       /\ (calls' = calls + 1 /\ det.is_fitted /\ call'.op = "detect_regime"
           /\ call'.arg.date \in CachedDates)
              => /\ call'.err = ""
                 /\ call'.out = CachedLabel(det, call'.arg.date)
       /\ (det'.state_map # det.state_map
              \/ det'.regime_history # det.regime_history)
              => /\ call'.op = "fit"
                    \/ (call'.op = "predict_batch" /\ ~det.is_fitted)
                 /\ det' = Fitted(det, call'.arg, AnswerFor(call'.arg))]_vars

\* The detector holds what the fit on the longer history left, a state map
\* that is not the identity, and after further calls detect_regime has
\* answered for a cached date.
C27_Witness ==
    /\ calls = MaxCalls
    /\ call.op = "detect_regime" /\ call.fitted_before /\ call.err = ""
    /\ call.arg.date \in CachedDates
    /\ det = Fitted(NewDetector(HMM_STATES), Longer(data), AnswerForLonger)
    /\ det.state_map[0] # 0
    /\ call.out = CachedLabel(det, call.arg.date)

\* C10: a strategy and its ledger are registered only while the engine is
\* Unstarted, and a registration opens the ledger with the configured initial
\* capital and exposure 0.
C10_AddOnlyUnstarted ==
    [][/\ (strategies' # strategies \/ DOMAIN portfolios' # DOMAIN portfolios)
              => pc = "Unstarted"
       /\ strategies' # strategies
              => portfolios'[GetName(strategies'[Len(strategies')])]
                     = NewPortfolio(INITIAL_CAPITAL, 0)]_vars

====
